---- MODULE Spec2Model ----
(***************************************************************************)
(* A state-machine model of DevstralWorkspace (src/devstral_workspace.py): *)
(* the project registry (create / load / delete / list), the per-project   *)
(* descriptor meta.json with its generation log, the rolling terminal log  *)
(* and the dev-server supervisor (port probe, spawn, stop).                *)
(*                                                                         *)
(* Project names are sequences of characters, paths are sequences of path  *)
(* components, the file system is the set of existing directories plus,    *)
(* per directory, its plain files and the text of its meta.json.           *)
(***************************************************************************)
EXTENDS Integers, Sequences, FiniteSets, TLC

\* ------------------------------------------------------------------ bounds

\* Most terminal lines one behaviour may write (the log itself is capped by
\* the program at TerminalCap lines).
MaxLines == 7
\* Most dev-server processes one behaviour may spawn.
MaxSpawn == 2
\* Most generation records one behaviour of the log specification appends.
MaxAppends == 52
\* External port claims are made on the first MaxExtPorts ports of the range.
MaxExtPorts == 1
\* In the log specification meta.json is damaged or removed from outside only
\* during the first MaxFaultClock milliseconds.
MaxFaultClock == 2
MaxRegLines == 4
\* Descriptor writes followed step by step.
MaxWrites == 3
\* Terminal lines written in the generation specification.
MaxGenLines == 10
\* Terminal lines written in the terminal-log specification.
MaxTermLines == 7
\* Terminal lines written in the process specification.
MaxProcLines == 8

\* ------------------------------------------------------- program constants

\* The prompt preview of a history view: gen.get("prompt", "")[:50].
PromptCap == 50

HistoryCap == 50
TerminalCap == 50
PortStart == 3000
PortEnd == 3100

\* ------------------------------------------------------------ Python values

\* Python's None where a string is expected (the screenshot reference); no
\* file name equals it.
None == "<None>"
\* preview_port = None; Python's `not self.preview_port` is true of it.
NoPort == 0
\* dev_server_process = None.
NoProcess == 0

Min(a, b) == IF a <= b THEN a ELSE b
Max(a, b) == IF a >= b THEN a ELSE b

\* seq[-n:] of Python: the last n elements (all of them when Len(seq) <= n).
LastN(seq, n) == SubSeq(seq, Max(1, Len(seq) - n + 1), Len(seq))

\* ------------------------------------------------------------- names, paths

\* str.strip(): leading and trailing blanks removed.
RECURSIVE LStrip(_)
LStrip(s) == IF s # <<>> /\ Head(s) = " " THEN LStrip(Tail(s)) ELSE s
RECURSIVE RStrip(_)
RStrip(s) ==
    IF s # <<>> /\ s[Len(s)] = " " THEN RStrip(SubSeq(s, 1, Len(s) - 1)) ELSE s
Strip(s) == LStrip(RStrip(s))

\* str.split("/") as pathlib sees it: the components between separators.
RECURSIVE SplitAcc(_, _, _)
SplitAcc(s, cur, acc) ==
    IF s = <<>> THEN Append(acc, cur)
    ELSE IF Head(s) = "/" THEN SplitAcc(Tail(s), <<>>, Append(acc, cur))
    ELSE SplitAcc(Tail(s), Append(cur, Head(s)), acc)
Split(s) == SplitAcc(s, <<>>, <<>>)

\* pathlib drops empty components and "." components, and keeps "..".
RECURSIVE DropDots(_)
DropDots(parts) ==
    IF parts = <<>> THEN <<>>
    ELSE IF Head(parts) = <<>> \/ Head(parts) = <<".">> THEN DropDots(Tail(parts))
    ELSE <<Head(parts)>> \o DropDots(Tail(parts))

\* Path("workspace"), relative to the process's working directory <<>>.
workspace_dir == << <<"w">> >>

\* self.workspace_dir / project_name (relative names only).
JoinName(name) == workspace_dir \o DropDots(Split(name))

\* current_project = None.
NoProject == << <<"<none>">> >>

\* Path.name: the last component.
PathName(p) == IF p = <<>> THEN <<>> ELSE p[Len(p)]

IsPrefix(p, q) == Len(p) <= Len(q) /\ SubSeq(q, 1, Len(p)) = p

\* The directory a lexical path denotes once the OS has followed its ".."
\* components; <<>> is the working directory, taken as its own parent.
RECURSIVE ResolveFrom(_, _)
ResolveFrom(cur, parts) ==
    IF parts = <<>> THEN cur
    ELSE IF Head(parts) = <<".", ".">>
         THEN ResolveFrom(IF cur = <<>> THEN <<>> ELSE SubSeq(cur, 1, Len(cur) - 1),
                          Tail(parts))
         ELSE ResolveFrom(Append(cur, Head(parts)), Tail(parts))
Resolve(p) == ResolveFrom(<<>>, p)

\* ------------------------------------------------------------------- state

VARIABLES
    fs,                 \* existing directory |-> [files, meta]
    current_project,    \* self.current_project: a lexical path, or NoProject
    terminal_history,   \* self.terminal_history
    procs,              \* every child process spawned so far, in spawn order
    dev_server_process, \* self.dev_server_process: an index of procs, or NoProcess
    preview_port,       \* self.preview_port
    model,              \* self.model is not None
    extBusy,            \* ports bound by processes other than our children
    clock,              \* the wall clock, in milliseconds
    appended,           \* history: directory |-> records appended to its log
    emitted,            \* history: every terminal line appended so far, in order
    writing,            \* the meta.json write a handler is in the middle of
    adding,             \* thread |-> its place in add_terminal_output
    reader_done,        \* the processes whose read_output thread has ended
    stdout_closed,      \* the processes whose output pipe is closed and drained
    stop_waiting,       \* the process a stop_dev_server call waits on, or NoProcess
    is_shutdown,        \* the orchestrator process has ended
    ret                 \* what the last call returned, and what it did

fsVars == <<fs, appended>>
srvVars == <<procs, dev_server_process, preview_port>>
thrVars == <<adding, reader_done, stdout_closed, stop_waiting, is_shutdown>>
envVars == <<extBusy, clock, model, writing, thrVars>>
vars == <<fs, current_project, terminal_history, procs, dev_server_process,
          preview_port, model, extBusy, clock, appended, emitted, writing, thrVars, ret>>

\* The number of terminal lines appended so far.
nLines == Len(emitted)

\* ------------------------------------------------------------- file system

\* The text of a file: absent, not parseable as JSON, or a JSON document.
AbsentFile == [kind |-> "absent", doc |-> <<>>]
CorruptFile == [kind |-> "corrupt", doc |-> <<>>]
JsonFile(d) == [kind |-> "json", doc |-> <<d>>]

EmptyDir == [files |-> <<>>, meta |-> AbsentFile]

\* Path.exists()
Exists(f, p) == Resolve(p) \in DOMAIN f

\* Path.mkdir(parents=True, exist_ok=True): the directory and its missing parents.
Prefixes(p) == {SubSeq(p, 1, n) : n \in 0..Len(p)}
MkdirP(f, p) ==
    [d \in DOMAIN f \cup Prefixes(Resolve(p)) |-> IF d \in DOMAIN f THEN f[d] ELSE EmptyDir]

\* shutil.rmtree(path): the directory and everything below it.
InTree(root, d) == IsPrefix(root, d)
RmTree(f, p) == [d \in {x \in DOMAIN f : ~InTree(Resolve(p), x)} |-> f[d]]

\* A plain file (or sub-directory) entry of a directory: name |-> content.
FileNames(f, d) == {f[d].files[i][1] : i \in 1..Len(f[d].files)}
HasFile(f, p, fname) == Exists(f, p) /\ fname \in FileNames(f, Resolve(p))
RECURSIVE WithoutFile(_, _)
WithoutFile(entries, fname) ==
    IF entries = <<>> THEN <<>>
    ELSE IF Head(entries)[1] = fname THEN WithoutFile(Tail(entries), fname)
    ELSE <<Head(entries)>> \o WithoutFile(Tail(entries), fname)
\* open(path, 'w').write(content) / mkdir(exist_ok=True) inside a directory.
PutFile(f, p, fname, content) ==
    [f EXCEPT ![Resolve(p)].files =
        IF fname \in FileNames(f, Resolve(p)) /\ content = "dir" THEN @
        ELSE Append(WithoutFile(@, fname), <<fname, content>>)]
RECURSIVE PutFiles(_, _, _)
PutFiles(f, p, entries) ==
    IF entries = <<>> THEN f
    ELSE PutFiles(PutFile(f, p, Head(entries)[1], Head(entries)[2]), p, Tail(entries))

MetaOf(f, p) == f[Resolve(p)].meta
\* meta_file.exists()
MetaExists(f, p) == Exists(f, p) /\ MetaOf(f, p).kind # "absent"

\* --------------------------------------------------------------------- JSON

JNull == <<"null">>
JStr(v) == <<"string", v>>

Get(d, k, default) == IF k \in DOMAIN d THEN d[k] ELSE default
DictSet(d, k, v) == [x \in DOMAIN d \cup {k} |-> IF x = k THEN v ELSE d[x]]

\* json.dump of one generation record: a JSON object, None written as null.
DumpRecord(g) ==
    [object |-> [k \in DOMAIN g |->
        IF k = "screenshot" /\ g[k] = None THEN JNull ELSE JStr(g[k])]]
\* (mutant) a JSON null is read back as the empty string.
LoadRecord_NullAsEmpty(j) ==
    [k \in DOMAIN j.object |-> IF j.object[k] = JNull THEN "" ELSE j.object[k][2]]
LoadRecord(j) ==
    [k \in DOMAIN j.object |-> IF j.object[k] = JNull THEN None ELSE j.object[k][2]]

\* json.dump(meta, f, indent=2): the descriptor as a JSON object whose
\* "generations" member is the array of the records.
JsonDump(m) ==
    [object |-> [k \in DOMAIN m |->
        IF k = "generations"
        THEN <<"array", [i \in 1..Len(m[k]) |-> DumpRecord(m[k][i])]>>
        ELSE JStr(m[k])]]
\* json.load(f) of a descriptor the program wrote.
JsonLoad(j) ==
    [k \in DOMAIN j.object |->
        IF j.object[k][1] = "array"
        THEN [i \in 1..Len(j.object[k][2]) |-> LoadRecord(j.object[k][2][i])]
        ELSE j.object[k][2]]

\* The descriptor of a directory as json.load returns it (readable files only).
ReadMeta(f, p) == JsonLoad(MetaOf(f, p).doc[1])
\* with open(meta_file, 'w') as f: json.dump(meta, f, indent=2)
WriteMeta(f, p, m) == [f EXCEPT ![Resolve(p)].meta = JsonFile(JsonDump(m))]

\* ----------------------------------------------------------------- terminal

\* datetime.now().isoformat(): the clock as text.
IsoFormat(t) == ToString(t)

\* datetime.now().strftime("%H:%M:%S"): the clock in whole seconds.
Seconds(t) == t \div 1000

\* add_terminal_output: the line appended, the log cut to its last 50 lines.
AddTerminalOutput(hist, t, msg, arg) ==
    LastN(Append(hist, <<Seconds(t), msg, arg>>), TerminalCap)
RECURSIVE AddLines(_, _, _)
AddLines(hist, t, lines) ==
    IF lines = <<>> THEN hist
    ELSE AddLines(AddTerminalOutput(hist, t, Head(lines)[1], Head(lines)[2]), t, Tail(lines))

\* ------------------------------------------------------------ return values

\* What a call returned: the operation, its argument, the kind of result, and
\* (history) what the call did on the way: ports probed, whether it spawned,
\* whether rmtree ran under a live child process.
Ret(op, arg, status) ==
    [op |-> op, arg |-> arg, status |-> status, port |-> NoPort,
     default_file |-> "", probes |-> 0, spawned |-> FALSE, orphaned |-> FALSE,
     listed |-> <<>>, raced |-> FALSE, history |-> <<>>, choices |-> <<>>,
     record |-> <<>>]

\* The threads that call add_terminal_output: the read_output thread of the
\* dev server and the thread of a UI handler.
Threads == {"read_output", "handler"}
\* A thread outside add_terminal_output.
Idle == [pc |-> "idle", slice |-> <<>>]

\* A call that changes the terminal log writes these lines, in order.
Emit(lines) ==
    /\ terminal_history' = AddLines(terminal_history, clock, lines)
    /\ emitted' = emitted \o [i \in 1..Len(lines) |->
                                 <<Seconds(clock), lines[i][1], lines[i][2]>>]

\* ------------------------------------------------------------------ queries

\* get_default_target_file: the target file of the active project's type; the
\* json.load of an unparseable meta.json is not caught and raises.
Raised == "<raised>"
TargetOfType(project_type) ==
    CASE project_type = "React" -> "src/App.jsx"
      [] project_type = "Vue" -> "src/App.vue"
      [] project_type = "Next.js" -> "app/page.tsx"
      [] OTHER -> "index.html"
GetDefaultTargetFile(f, cur) ==
    IF cur = NoProject THEN "src/App.jsx"
    ELSE IF MetaExists(f, cur)
         THEN IF MetaOf(f, cur).kind = "corrupt" THEN Raised
              ELSE TargetOfType(Get(ReadMeta(f, cur), "type", "React"))
         ELSE "src/App.jsx"

\* load_generation_history catches every exception of its json.load and
\* writes one terminal line for it.
HistoryErrorLines(f, cur) ==
    IF cur # NoProject /\ MetaExists(f, cur) /\ MetaOf(f, cur).kind = "corrupt"
    THEN << <<"Error loading history", <<>> >> >>
    ELSE <<>>

\* ---------------------------------------------------------- project registry

\* The code points that order names in sorted(projects, key=name).
CharCode(c) ==
    CASE c = " " -> 32 [] c = "." -> 46 [] c = "/" -> 47
      [] c = "a" -> 97 [] c = "b" -> 98 [] OTHER -> 119
RECURSIVE NameLess(_, _)
NameLess(x, y) ==
    IF y = <<>> THEN FALSE
    ELSE IF x = <<>> THEN TRUE
    ELSE IF Head(x) # Head(y) THEN CharCode(Head(x)) < CharCode(Head(y))
    ELSE NameLess(Tail(x), Tail(y))
RECURSIVE SortedByName(_)
SortedByName(entries) ==
    IF entries = {} THEN <<>>
    ELSE LET first == CHOOSE e \in entries :
                         \A o \in entries \ {e} : NameLess(e.name, o.name)
         IN <<first>> \o SortedByName(entries \ {first})

\* One entry of get_workspace_projects: the descriptor's fields, or "Unknown"
\* when meta.json is missing or json.load fails.
ProjectSummary(f, d) ==
    IF f[d].meta.kind = "json"
    THEN LET meta == JsonLoad(f[d].meta.doc[1])
         IN [name |-> PathName(d), created |-> Get(meta, "created", "Unknown"),
             last_modified |-> Get(meta, "last_modified", "Unknown"),
             type |-> Get(meta, "type", "Unknown")]
    ELSE [name |-> PathName(d), created |-> "Unknown", last_modified |-> "Unknown",
          type |-> "Unknown"]

\* (mutant) only directories that hold a meta.json are listed.
ListedDirs_WithMetaOnly(f) ==
    {d \in DOMAIN f : /\ Len(d) = Len(workspace_dir) + 1
                      /\ IsPrefix(workspace_dir, d)
                      /\ Head(PathName(d)) # "."
                      /\ f[d].meta.kind # "absent"}
\* workspace_dir.iterdir(), directories whose name does not start with ".".
ListedDirs(f) ==
    {d \in DOMAIN f : /\ Len(d) = Len(workspace_dir) + 1
                      /\ IsPrefix(workspace_dir, d)
                      /\ PathName(d) # <<>>
                      /\ Head(PathName(d)) # "."}

\* get_workspace_projects(): raises when the workspace directory is gone.
GetWorkspaceProjects(f) ==
    IF workspace_dir \notin DOMAIN f
    THEN [raised |-> TRUE, projects |-> <<>>]
    ELSE [raised |-> FALSE,
          projects |-> SortedByName({ProjectSummary(f, d) : d \in ListedDirs(f)})]


\* The scaffold of a project type: sub-directories, then files.
Scaffold(project_type) ==
    CASE project_type = "React" ->
            << << <<"src">>, "dir" >>, << <<"src", "components">>, "dir" >>,
               << <<"public">>, "dir" >>, << <<"package.json">>, "scaffold" >>,
               << <<"vite.config.js">>, "scaffold" >>, << <<"index.html">>, "scaffold" >>,
               << <<"src", "main.jsx">>, "scaffold" >>, << <<"src", "App.jsx">>, "scaffold" >>,
               << <<"src", "index.css">>, "scaffold" >>, << <<"src", "App.css">>, "scaffold" >> >>
      [] project_type = "Vue" ->
            << << <<"src">>, "dir" >>, << <<"src", "components">>, "dir" >>,
               << <<"public">>, "dir" >>, << <<"package.json">>, "scaffold" >>,
               << <<"vite.config.js">>, "scaffold" >>, << <<"index.html">>, "scaffold" >>,
               << <<"src", "main.js">>, "scaffold" >>, << <<"src", "App.vue">>, "scaffold" >> >>
      [] project_type = "Next.js" ->
            << << <<"app">>, "dir" >>, << <<"components">>, "dir" >>,
               << <<"public">>, "dir" >>, << <<"package.json">>, "scaffold" >>,
               << <<"next.config.js">>, "scaffold" >>, << <<"app", "layout.js">>, "scaffold" >>,
               << <<"app", "page.js">>, "scaffold" >> >>
      [] OTHER ->
            << << <<"css">>, "dir" >>, << <<"js">>, "dir" >>, << <<"images">>, "dir" >>,
               << <<"index.html">>, "scaffold" >>, << <<"css", "style.css">>, "scaffold" >>,
               << <<"js", "main.js">>, "scaffold" >> >>
\* The sub-directories of a scaffold: what exists when its first write fails.
ScaffoldDirs(project_type) == SelectSeq(Scaffold(project_type), LAMBDA e : e[2] = "dir")

\* The descriptor create_project writes.
NewMeta(name, project_type, t) ==
    [name |-> name, type |-> project_type, created |-> IsoFormat(t),
     last_modified |-> IsoFormat(t), generations |-> <<>>]

\* Where create_project can fail with an exception (caught by its except).
CreateFailures == {"none", "mkdir", "screenshots", "meta_open", "meta_write", "scaffold"}

\* The first test of create_project: a name it does not reject as empty.
ValidName(project_name) == project_name # <<>> /\ Strip(project_name) # <<>>

\* create_project(project_name, project_type); failAt is the step that raises.
CreateProject(project_name, project_type, failAt) ==
    LET name == Strip(project_name)
        project_path == JoinName(name)
        madeFs == MkdirP(fs, project_path)
        shotFs == PutFile(madeFs, project_path, <<"screenshots">>, "dir")
        metaFs == WriteMeta(shotFs, project_path, NewMeta(name, project_type, clock))
        tornFs == [shotFs EXCEPT ![Resolve(project_path)].meta = CorruptFile]
        doneFs == PutFiles(metaFs, project_path, Scaffold(project_type))
        partFs == PutFiles(metaFs, project_path, ScaffoldDirs(project_type))
        newFs == CASE failAt = "screenshots" -> madeFs
                   [] failAt = "meta_open" -> shotFs
                   [] failAt = "meta_write" -> tornFs
                   [] failAt = "scaffold" -> partFs
                   [] OTHER -> doneFs
    IN
    IF ~ValidName(project_name)
    THEN /\ failAt = "none"
         /\ ret' = Ret("create", project_name, "invalid")
         /\ UNCHANGED <<fs, appended, current_project, terminal_history, emitted,
                        srvVars, envVars>>
    ELSE IF Exists(fs, project_path)
    THEN /\ failAt = "none"
         /\ ret' = IF GetDefaultTargetFile(fs, current_project) = Raised
                   THEN Ret("create", project_name, "raised")
                   ELSE [Ret("create", project_name, "already_exists") EXCEPT
                            !.default_file = GetDefaultTargetFile(fs, current_project)]
         /\ UNCHANGED <<fs, appended, current_project, terminal_history, emitted,
                        srvVars, envVars>>
    ELSE IF failAt = "mkdir"
    THEN /\ ret' = Ret("create", project_name, "error")
         /\ UNCHANGED <<fs, appended, current_project, terminal_history, emitted,
                        srvVars, envVars>>
    ELSE /\ fs' = newFs
         /\ appended' = [d \in DOMAIN newFs |->
                            IF d \in DOMAIN appended THEN appended[d] ELSE <<>>]
         /\ current_project' = project_path
         /\ IF failAt = "none"
            THEN /\ Emit(<< <<"Created project", name>>, <<"Location", project_path>>,
                            <<"Screenshots", project_path>> >>)
                 /\ ret' = [Ret("create", project_name, "ok") EXCEPT
                               !.default_file = GetDefaultTargetFile(newFs, project_path)]
            ELSE /\ ret' = Ret("create", project_name, "error")
                 /\ UNCHANGED <<terminal_history, emitted, thrVars>>
         /\ UNCHANGED <<srvVars, envVars>>

\* How load_project(project_name) ends on the file system f.
LoadStatus(f, project_name) ==
    IF project_name = <<>> THEN "invalid"
    ELSE IF ~Exists(f, JoinName(project_name)) THEN "not_found"
    ELSE IF GetDefaultTargetFile(f, JoinName(project_name)) = Raised THEN "raised"
    ELSE "ok"

\* (mutant) load_project records the path before it tests that it exists.
LoadProject_PointerFirst(project_name) ==
    LET project_path == JoinName(project_name) IN
    IF project_name = <<>>
    THEN /\ ret' = Ret("load", project_name, "invalid")
         /\ UNCHANGED <<fsVars, current_project, terminal_history, emitted, srvVars, envVars>>
    ELSE IF ~Exists(fs, project_path)
    THEN /\ ret' = Ret("load", project_name, "not_found")
         /\ current_project' = project_path
         /\ UNCHANGED <<fsVars, terminal_history, emitted, srvVars, envVars>>
    ELSE /\ current_project' = project_path
         /\ Emit(<< <<"Loaded project", project_name>>, <<"Location", project_path>> >>
                 \o HistoryErrorLines(fs, project_path))
         /\ ret' = IF LoadStatus(fs, project_name) = "raised"
                   THEN Ret("load", project_name, "raised")
                   ELSE [Ret("load", project_name, "ok") EXCEPT
                            !.default_file = GetDefaultTargetFile(fs, project_path)]
         /\ UNCHANGED <<fsVars, srvVars, envVars>>

\* load_project(project_name)
LoadProject(project_name) ==
    LET project_path == JoinName(project_name) IN
    IF project_name = <<>>
    THEN /\ ret' = Ret("load", project_name, "invalid")
         /\ UNCHANGED <<fsVars, current_project, terminal_history, emitted, srvVars, envVars>>
    ELSE IF ~Exists(fs, project_path)
    THEN /\ ret' = Ret("load", project_name, "not_found")
         /\ UNCHANGED <<fsVars, current_project, terminal_history, emitted, srvVars, envVars>>
    ELSE /\ current_project' = project_path
         /\ Emit(<< <<"Loaded project", project_name>>, <<"Location", project_path>> >>
                 \o HistoryErrorLines(fs, project_path))
         /\ ret' = IF LoadStatus(fs, project_name) = "raised"
                   THEN Ret("load", project_name, "raised")
                   ELSE [Ret("load", project_name, "ok") EXCEPT
                            !.default_file = GetDefaultTargetFile(fs, project_path)]
         /\ UNCHANGED <<fsVars, srvVars, envVars>>

\* ----------------------------------------------------------- generation log

\* (mutant) the slice keeps the first 50 records instead of the last 50.
KeepLastGenerations_First(gens) == SubSeq(gens, 1, Min(Len(gens), HistoryCap))
\* meta["generations"][-50:]
KeepLastGenerations(gens) == LastN(gens, HistoryCap)

\* The descriptor save_generation_metadata makes up when meta.json is absent.
DefaultMeta(cur, t) ==
    [name |-> PathName(cur), type |-> "Unknown", created |-> IsoFormat(t),
     generations |-> <<>>]

\* save_generation_metadata(generation_meta) at time t: the file system and
\* the log history after it, and how it ended: "none" (no active project),
\* "raised" (json.load or open raised) or "saved".
SaveGenerationMetadata(f, app, cur, t, generation_meta) ==
    IF cur = NoProject THEN [fs |-> f, appended |-> app, status |-> "none"]
    ELSE IF ~Exists(f, cur) \/ MetaOf(f, cur).kind = "corrupt"
    THEN [fs |-> f, appended |-> app, status |-> "raised"]
    ELSE LET old == IF MetaExists(f, cur) THEN ReadMeta(f, cur) ELSE DefaultMeta(cur, t)
             stamped == DictSet(old, "last_modified", IsoFormat(t))
             new == [stamped EXCEPT !.generations =
                        KeepLastGenerations(Append(@, generation_meta))]
         IN [fs |-> WriteMeta(f, cur, new),
             appended |-> [app EXCEPT ![Resolve(cur)] =
                              IF MetaExists(f, cur) THEN Append(@, generation_meta)
                              ELSE <<generation_meta>>],
             status |-> "saved"]

\* The record generate_code builds once the target file is written.
GenerationMeta(t, target_file, custom_prompt, screenshot) ==
    [timestamp |-> IsoFormat(t), target_file |-> target_file, prompt |-> custom_prompt,
     screenshot |-> screenshot, generation_id |-> "gen_" \o ToString(t)]

\* The tail of generate_code: the model call has taken `elapsed` milliseconds,
\* the record is built from the clock and handed to save_generation_metadata;
\* an exception is caught by generate_code and reported.
RecordGeneration(elapsed, target_file, custom_prompt, screenshot) ==
    LET t == clock + elapsed
        e == SaveGenerationMetadata(fs, appended, current_project, t,
                                    GenerationMeta(t, target_file, custom_prompt, screenshot))
    IN /\ current_project # NoProject
       /\ clock' = t
       /\ fs' = e.fs
       /\ appended' = e.appended
       /\ ret' = Ret("generate", <<>>, IF e.status = "saved" THEN "ok" ELSE "error")
       /\ UNCHANGED <<current_project, terminal_history, emitted, srvVars, extBusy, model, writing, thrVars>>

\* ---------------------------------------------------- generate_code, queries

\* target_file.replace("/", "_").replace("\\", "_"), on the target files used.
CleanTarget(target_file) ==
    CASE target_file = "css/style.css" -> "css_style.css"
      [] OTHER -> target_file
\* self.current_project / target_file, as path components below the project.
TargetPath(target_file) ==
    CASE target_file = "css/style.css" -> <<"css", "style.css">>
      [] OTHER -> <<target_file>>

\* datetime.now().strftime("%Y%m%d_%H%M%S"): the clock in whole seconds, as text.
StrfSeconds(t) == ToString(Seconds(t))
\* (mutant) the target file is left out of the screenshot's name.
ScreenshotName_NoTarget(t, target_file) == StrfSeconds(t) \o ".png"
\* save_screenshot: f"{timestamp}_{clean_target}.png"
ScreenshotName(t, target_file) ==
    StrfSeconds(t) \o "_" \o CleanTarget(target_file) \o ".png"

\* The files of screenshots_dir.glob("*.png"), oldest modification first (a
\* file written again moves to the end), as <<name, image>>.
ScreenshotFiles(f, cur) ==
    IF ~Exists(f, cur) THEN <<>>
    ELSE LET shots == SelectSeq(f[Resolve(cur)].files,
                                LAMBDA e : Len(e[1]) = 2 /\ e[1][1] = "screenshots")
         IN [i \in 1..Len(shots) |-> <<shots[i][1][2], shots[i][2]>>]

Reverse(seq) == [i \in 1..Len(seq) |-> seq[Len(seq) + 1 - i]]

\* gen.get("screenshot") is truthy.
HasScreenshot(gen) == gen.screenshot # None /\ gen.screenshot # ""

\* (mutant) the preview is cut to 50 characters without the ellipsis test.
PromptPreview_Cut(prompt) == SubSeq(prompt, 1, Min(Len(prompt), PromptCap))
\* prompt[:50] + "..." if len(prompt) > 50 else prompt
PromptPreview(prompt) ==
    IF Len(prompt) > PromptCap THEN SubSeq(prompt, 1, PromptCap) \o <<".", ".", ".">>
    ELSE prompt

\* One row of load_generation_history.
HistoryView(gen) ==
    [File |-> gen.target_file, Prompt |-> PromptPreview(gen.prompt),
     Screenshot |-> HasScreenshot(gen), ID |-> gen.generation_id]

\* load_generation_history(): newest first; [] without a project, without
\* meta.json, and when json.load fails.
LoadGenerationHistory(f, cur) ==
    IF cur = NoProject \/ ~MetaExists(f, cur) \/ MetaOf(f, cur).kind = "corrupt" THEN <<>>
    ELSE LET gens == ReadMeta(f, cur).generations
         IN Reverse([i \in 1..Len(gens) |-> HistoryView(gens[i])])

\* What load_generation_by_id returns when nothing is found.
NotFoundRecord == [screenshot |-> None, target_file |-> "", prompt |-> <<>>]

\* load_generation_by_id(generation_id): the first record with that id, its
\* screenshot opened when the file exists.
LoadGenerationById(f, cur, generation_id) ==
    IF cur = NoProject \/ generation_id = "" THEN NotFoundRecord
    ELSE IF ~MetaExists(f, cur) \/ MetaOf(f, cur).kind = "corrupt" THEN NotFoundRecord
    ELSE LET gens == ReadMeta(f, cur).generations
             hits == {i \in 1..Len(gens) : gens[i].generation_id = generation_id}
         IN IF hits = {} THEN NotFoundRecord
            ELSE LET gen == gens[CHOOSE i \in hits : \A j \in hits : i <= j]
                     shots == ScreenshotFiles(f, cur)
                     at == {i \in 1..Len(shots) : shots[i][1] = gen.screenshot}
                 IN [screenshot |-> IF HasScreenshot(gen) /\ at # {}
                                    THEN shots[CHOOSE i \in at : TRUE][2] ELSE None,
                     target_file |-> gen.target_file, prompt |-> gen.prompt]

\* (mutant) the first record with the screenshot's name labels it, not the last.
LabelOf_First(gens, name) ==
    LET hits == {i \in 1..Len(gens) : HasScreenshot(gens[i]) /\ gens[i].screenshot = name}
    IN IF hits = {} THEN "Unknown"
       ELSE gens[CHOOSE i \in hits : \A j \in hits : i <= j].target_file
\* generations_map[gen["screenshot"]] = ...: a later record replaces an
\* earlier one of the same screenshot name; no entry gives "Unknown".
LabelOf(gens, name) ==
    LET hits == {i \in 1..Len(gens) : HasScreenshot(gens[i]) /\ gens[i].screenshot = name}
    IN IF hits = {} THEN "Unknown"
       ELSE gens[CHOOSE i \in hits : \A j \in hits : i >= j].target_file

\* get_screenshot_choices(): the screenshots newest first, each with the
\* target file of its record; its json.load is not caught.
GetScreenshotChoices(f, cur) ==
    IF cur = NoProject \/ ~Exists(f, cur)
          \/ <<"screenshots">> \notin FileNames(f, Resolve(cur))
    THEN [raised |-> FALSE, choices |-> <<>>]
    ELSE IF MetaOf(f, cur).kind = "corrupt" THEN [raised |-> TRUE, choices |-> <<>>]
    ELSE LET shots == Reverse(ScreenshotFiles(f, cur))
             gens == IF MetaExists(f, cur) THEN ReadMeta(f, cur).generations ELSE <<>>
         IN [raised |-> FALSE,
             choices |-> [i \in 1..Len(shots) |->
                             [name |-> shots[i][1], target_file |-> LabelOf(gens, shots[i][1])]]]

\* generate_code(image, target_file, custom_prompt, save_screenshot); modelOk:
\* the model call and the decoding end without an exception; elapsed: the
\* milliseconds the clock has moved when the record is built.
GenerateCode(image, target_file, custom_prompt, save_screenshot, modelOk, elapsed) ==
    LET cur == current_project
        t == clock + elapsed
        l1 == << <<"Generating code for", target_file>> >>
        l2 == << <<"Project type", <<>> >> >>
        saves == save_screenshot /\ image # None
        name == ScreenshotName(clock, target_file)
        l3 == IF saves THEN << <<"Saved screenshot", name>> >> ELSE <<>>
        fs0 == MkdirP(fs, cur)
        app0 == [d \in DOMAIN fs0 |-> IF d \in DOMAIN appended THEN appended[d] ELSE <<>>]
        fs1 == IF saves
               THEN PutFile(PutFile(fs0, cur, <<"screenshots">>, "dir"),
                            cur, <<"screenshots", name>>, image)
               ELSE fs0
        fs2 == PutFile(fs1, cur, TargetPath(target_file), "code")
        l4 == << <<"Saved to", target_file>> >>
        e == SaveGenerationMetadata(fs2, app0, cur, t,
                 GenerationMeta(t, target_file, custom_prompt, IF saves THEN name ELSE None))
    IN
    IF ~model
    THEN /\ modelOk /\ elapsed = 0
         /\ ret' = Ret("generate", <<>>, "no_model")
         /\ UNCHANGED <<fsVars, current_project, terminal_history, emitted, srvVars, envVars>>
    ELSE IF image = None
    THEN /\ modelOk /\ elapsed = 0
         /\ ret' = Ret("generate", <<>>, "no_image")
         /\ UNCHANGED <<fsVars, current_project, terminal_history, emitted, srvVars, envVars>>
    ELSE IF cur = NoProject
    THEN /\ modelOk /\ elapsed = 0
         /\ ret' = Ret("generate", <<>>, "no_project")
         /\ UNCHANGED <<fsVars, current_project, terminal_history, emitted, srvVars, envVars>>
    ELSE IF Exists(fs, cur) /\ MetaOf(fs, cur).kind = "corrupt"
    THEN /\ modelOk /\ elapsed = 0
         /\ Emit(l1)
         /\ ret' = Ret("generate", <<>>, "error")
         /\ UNCHANGED <<fsVars, current_project, srvVars, envVars>>
    ELSE IF ~Exists(fs, cur) /\ saves
    THEN /\ modelOk /\ elapsed = 0
         /\ Emit(l1 \o l2)
         /\ ret' = Ret("generate", <<>>, "error")
         /\ UNCHANGED <<fsVars, current_project, srvVars, envVars>>
    ELSE IF ~modelOk
    THEN /\ Emit(l1 \o l2 \o l3)
         /\ fs' = IF saves THEN fs1 ELSE fs
         /\ clock' = t
         /\ ret' = Ret("generate", <<>>, "error")
         /\ UNCHANGED <<appended, current_project, srvVars, extBusy, model, writing, thrVars>>
    ELSE /\ Emit(l1 \o l2 \o l3 \o l4)
         /\ fs' = e.fs
         /\ appended' = e.appended
         /\ clock' = t
         /\ ret' = [Ret("generate", <<>>, "ok") EXCEPT
                       !.history = LoadGenerationHistory(e.fs, cur)]
         /\ UNCHANGED <<current_project, srvVars, extBusy, model, writing, thrVars>>

\* load_model(): the model is loaded once.
LoadModel ==
    /\ model' = TRUE
    /\ ret' = Ret("load_model", <<>>, IF model THEN "already" ELSE "ok")
    /\ UNCHANGED <<fsVars, current_project, terminal_history, emitted, srvVars,
                   extBusy, clock, writing, thrVars>>

\* The history table is filled from load_generation_history().
RefreshHistory ==
    /\ ret' = [Ret("history", <<>>, "ok") EXCEPT
                  !.history = LoadGenerationHistory(fs, current_project)]
    /\ Emit(HistoryErrorLines(fs, current_project))
    /\ UNCHANGED <<fsVars, current_project, srvVars, envVars>>

\* refresh_screenshot_dropdown: the choices of get_screenshot_choices().
RefreshScreenshotDropdown ==
    /\ ret' = [Ret("choices", <<>>,
                   IF GetScreenshotChoices(fs, current_project).raised THEN "raised" ELSE "ok")
                  EXCEPT !.choices = GetScreenshotChoices(fs, current_project).choices]
    /\ UNCHANGED <<fsVars, current_project, terminal_history, emitted, srvVars, envVars>>

\* reload_generation(gen_id): the handler of the reload button; it takes the
\* generation as found only when load_generation_by_id returned a screenshot.
ReloadGeneration(gen_id) ==
    LET r == LoadGenerationById(fs, current_project, gen_id) IN
    /\ ret' = IF gen_id = "" THEN Ret("reload", gen_id, "invalid")
              ELSE IF r.screenshot # None
              THEN [Ret("reload", gen_id, "loaded") EXCEPT !.record = <<r>>]
              ELSE [Ret("reload", gen_id, "not_found") EXCEPT !.record = <<NotFoundRecord>>]
    /\ Emit(IF gen_id # "" THEN HistoryErrorLines(fs, current_project) ELSE <<>>)
    /\ UNCHANGED <<fsVars, current_project, srvVars, envVars>>

\* No handler is between open(meta_file, 'w') and the end of json.dump.
NoWrite == [active |-> FALSE, dir |-> <<>>, meta |-> AbsentFile, appended |-> <<>>]

\* open(meta_file, 'w') truncates meta.json; until json.dump has written
\* everything and the file is closed, it holds an empty or partial text that
\* json.load rejects.
DuringWrite(old) == CorruptFile

\* save_generation_metadata up to and including open(meta_file, 'w'), as the
\* tail of generate_code: the new descriptor is computed, the file truncated.
SaveOpen(elapsed, target_file, custom_prompt, screenshot) ==
    LET t == clock + elapsed
        e == SaveGenerationMetadata(fs, appended, current_project, t,
                                    GenerationMeta(t, target_file, custom_prompt, screenshot))
        d == Resolve(current_project)
    IN /\ ~writing.active
       /\ current_project # NoProject
       /\ e.status = "saved"
       /\ clock' = t
       /\ fs' = [fs EXCEPT ![d].meta = DuringWrite(@)]
       /\ writing' = [active |-> TRUE, dir |-> d, meta |-> e.fs[d].meta,
                      appended |-> e.appended[d]]
       /\ ret' = Ret("generate", <<>>, "writing")
       /\ UNCHANGED <<appended, current_project, terminal_history, emitted, srvVars,
                      extBusy, model, thrVars>>

\* json.dump(meta, f, indent=2) and the close of the file: meta.json is whole.
SaveDump ==
    /\ writing.active
    /\ fs' = [fs EXCEPT ![writing.dir].meta = writing.meta]
    /\ appended' = [appended EXCEPT ![writing.dir] = writing.appended]
    /\ writing' = NoWrite
    /\ ret' = Ret("generate", <<>>, "ok")
    /\ UNCHANGED <<current_project, terminal_history, emitted, srvVars, extBusy, clock, model, thrVars>>

\* ------------------------------------------------------- dev-server supervisor

\* dev_server_process.poll() is None, for a process of procs.
Alive(ps, i) == ps[i].state = "running"
\* self.dev_server_process and self.dev_server_process.poll() is None
ServerRunning(ps, h) == h # NoProcess /\ Alive(ps, h)
LiveProcs(ps) == {i \in 1..Len(ps) : Alive(ps, i)}

\* The ports a bind would find taken: other processes' and our listening children's.
BusyPorts(ps, ext) == ext \cup {ps[i].port : i \in {j \in LiveProcs(ps) : ps[j].bound}}

\* (mutant) the first port of the range is returned without being bound.
FindAvailablePort_NoProbe(start, end, busy) == IF start >= end THEN NoPort ELSE start
\* find_available_port(start, end): the first port of range(start, end) that binds.
RECURSIVE FindAvailablePort(_, _, _)
FindAvailablePort(start, end, busy) ==
    IF start >= end THEN NoPort
    ELSE IF start \notin busy THEN start
    ELSE FindAvailablePort(start + 1, end, busy)
\* How many ports that search tried to bind.
PortsProbed(start, end, found) == IF found = NoPort THEN end - start ELSE found - start + 1

\* (mutant) terminate() without wait(): the process is still running on return.
TerminateAndWait_NoWait(ps, h) == ps
\* stop_dev_server's effect on the process table: terminate(), then wait().
TerminateAndWait(ps, h) == [ps EXCEPT ![h].state = "exited"]

\* (mutant) stop_dev_server clears preview_port on both paths.
StopDevServer_AlwaysClears ==
    IF ServerRunning(procs, dev_server_process)
    THEN /\ procs' = TerminateAndWait(procs, dev_server_process)
         /\ Emit(<< <<"Dev server stopped", <<>> >> >>)
         /\ preview_port' = NoPort
         /\ ret' = Ret("stop", <<>>, "stopped")
         /\ UNCHANGED <<fsVars, current_project, dev_server_process, envVars>>
    ELSE /\ ret' = Ret("stop", <<>>, "no_server")
         /\ preview_port' = NoPort
         /\ UNCHANGED <<fsVars, current_project, terminal_history, emitted, procs,
                        dev_server_process, envVars>>
\* stop_dev_server()
StopDevServer ==
    IF ServerRunning(procs, dev_server_process)
    THEN /\ procs' = TerminateAndWait(procs, dev_server_process)
         /\ Emit(<< <<"Dev server stopped", <<>> >> >>)
         /\ preview_port' = NoPort
         /\ ret' = Ret("stop", <<>>, "stopped")
         /\ UNCHANGED <<fsVars, current_project, dev_server_process, envVars>>
    ELSE /\ ret' = Ret("stop", <<>>, "no_server")
         /\ UNCHANGED <<fsVars, current_project, terminal_history, emitted, srvVars, envVars>>

\* (mutant) the comparison never succeeds, as when a Path is compared with the name.
DeleteStopsServer_Never(cur, project_path) == FALSE
\* delete_project stops the server when the project deleted is the active one.
DeleteStopsServer(cur, project_path) == cur = project_path

\* A live child whose working directory lies in the subtree rmtree removes.
LiveInTree(ps, project_path) ==
    \E i \in LiveProcs(ps) : InTree(Resolve(project_path), ps[i].cwd)

\* (mutant) the exists() test is missing.
DeleteTargetMissing_Never(f, project_path) == FALSE
\* delete_project returns not-found when project_path does not exist.
DeleteTargetMissing(f, project_path) == ~Exists(f, project_path)

\* delete_project(project_name); rmFail: shutil.rmtree raises.
DeleteProject(project_name, rmFail) ==
    LET project_path == JoinName(project_name)
        active == DeleteStopsServer(current_project, project_path)
        stops == active /\ ServerRunning(procs, dev_server_process)
        procs1 == IF stops THEN TerminateAndWait(procs, dev_server_process) ELSE procs
        newFs == IF rmFail THEN fs ELSE RmTree(fs, project_path)
    IN
    IF project_name = <<>>
    THEN /\ ~rmFail
         /\ ret' = Ret("delete", project_name, "invalid")
         /\ UNCHANGED <<fsVars, current_project, terminal_history, emitted, srvVars, envVars>>
    ELSE IF DeleteTargetMissing(fs, project_path)
    THEN /\ ~rmFail
         /\ ret' = Ret("delete", project_name, "not_found")
         /\ UNCHANGED <<fsVars, current_project, terminal_history, emitted, srvVars, envVars>>
    ELSE /\ procs' = procs1
         /\ preview_port' = IF stops THEN NoPort ELSE preview_port
         /\ current_project' = IF active THEN NoProject ELSE current_project
         /\ fs' = newFs
         /\ appended' = [d \in DOMAIN newFs |-> appended[d]]
         /\ Emit((IF stops THEN << <<"Dev server stopped", <<>> >> >> ELSE <<>>)
                 \o (IF rmFail THEN <<>> ELSE << <<"Deleted project", project_name>> >>))
         /\ ret' = [Ret("delete", project_name, IF rmFail THEN "error" ELSE "ok") EXCEPT
                       !.orphaned = ~rmFail /\ LiveInTree(procs1, project_path)]
         /\ UNCHANGED <<dev_server_process, envVars>>

\* time.sleep(3) of start_dev_server, in milliseconds.
StartSleep == 3000

\* (mutant) the guard is missing: every start spawns.
StartMaySpawn_Always(ps, h) == TRUE
\* (mutant) the poll() test is inverted.
StartMaySpawn_WrongPoll(ps, h) == h = NoProcess \/ Alive(ps, h)
\* start_dev_server spawns only when no recorded process is alive.
StartMaySpawn(ps, h) == ~ServerRunning(ps, h)

\* How `npm install` can end: exit 0, exit non-zero, or subprocess.run raising.
InstallOutcomes == {"ok", "fail", "raise"}

\* start_dev_server(); install is how npm install ends, spawnOk whether Popen
\* succeeds (both matter only on the paths that reach them); raced: another
\* process binds the probed port after find_available_port has closed its
\* socket and before the child binds, so the child fails to bind and exits
\* during the handler's sleep.
StartDevServerWith(install, spawnOk, raced) ==
    LET port == FindAvailablePort(PortStart, PortEnd, BusyPorts(procs, extBusy))
        probes == PortsProbed(PortStart, PortEnd, port)
        node == HasFile(fs, current_project, <<"package.json">>)
        needInstall == node /\ ~HasFile(fs, current_project, <<"node_modules">>)
        installLines == IF needInstall THEN << <<"Installing dependencies", <<>> >> >> ELSE <<>>
        cmdLines == IF node THEN installLines
                    ELSE << <<"Starting Python HTTP server", <<>> >> >>
        canSpawn == spawnOk /\ Exists(fs, current_project)
        child == [cwd |-> Resolve(current_project), port |-> port,
                  state |-> "running", bound |-> FALSE]
    IN
    IF current_project = NoProject
    THEN /\ install = "ok" /\ spawnOk /\ ~raced
         /\ ret' = Ret("start", <<>>, "no_project")
         /\ UNCHANGED <<fsVars, current_project, terminal_history, emitted, srvVars, envVars>>
    ELSE IF ~StartMaySpawn(procs, dev_server_process)
    THEN /\ install = "ok" /\ spawnOk /\ ~raced
         /\ ret' = [Ret("start", <<>>, "already_running") EXCEPT !.port = preview_port]
         /\ UNCHANGED <<fsVars, current_project, terminal_history, emitted, srvVars, envVars>>
    ELSE IF port = NoPort
    THEN /\ install = "ok" /\ spawnOk /\ ~raced
         /\ preview_port' = NoPort
         /\ ret' = [Ret("start", <<>>, "no_ports") EXCEPT !.probes = probes]
         /\ UNCHANGED <<fsVars, current_project, terminal_history, emitted, procs,
                        dev_server_process, envVars>>
    ELSE IF needInstall /\ install # "ok"
    THEN /\ spawnOk /\ ~raced
         /\ preview_port' = port
         /\ Emit(installLines \o (IF install = "fail"
                                  THEN << <<"npm install failed", <<>> >> >> ELSE <<>>))
         /\ ret' = [Ret("start", <<>>, IF install = "fail" THEN "install_failed" ELSE "error")
                       EXCEPT !.probes = probes]
         /\ UNCHANGED <<fsVars, current_project, procs, dev_server_process, envVars>>
    ELSE /\ ~needInstall => install = "ok"
         /\ preview_port' = port
         /\ fs' = IF needInstall THEN PutFile(fs, current_project, <<"node_modules">>, "dir")
                  ELSE fs
         /\ IF canSpawn
            THEN /\ procs' = Append(procs, IF raced THEN [child EXCEPT !.state = "exited"]
                                           ELSE child)
                 /\ extBusy' = IF raced THEN extBusy \cup {port} ELSE extBusy
                 /\ dev_server_process' = Len(procs) + 1
                 /\ Emit(cmdLines \o << <<"Starting dev server", port>> >>)
                 /\ clock' = clock + StartSleep
                 /\ ret' = [Ret("start", <<>>, "ok") EXCEPT
                               !.port = port, !.probes = probes, !.spawned = TRUE,
                               !.raced = raced]
            ELSE /\ ~raced
                 /\ Emit(cmdLines)
                 /\ ret' = [Ret("start", <<>>, "error") EXCEPT !.probes = probes]
                 /\ UNCHANGED <<procs, dev_server_process, clock, extBusy, thrVars>>
         /\ UNCHANGED <<appended, current_project, model, writing, thrVars>>

\* start_dev_server() with nobody else binding the probed port meanwhile.
StartDevServer(install, spawnOk) == StartDevServerWith(install, spawnOk, FALSE)

\* ------------------------------------------------------------------ threads

\* add_terminal_output(text) by thread th, statement by statement. First
\* self.terminal_history.append(f"[{timestamp}] {text}").
AddAppend(th, msg, arg) ==
    /\ adding[th].pc = "idle"
    /\ terminal_history' = Append(terminal_history, <<Seconds(clock), msg, arg>>)
    /\ emitted' = Append(emitted, <<Seconds(clock), msg, arg>>)
    /\ adding' = [adding EXCEPT ![th].pc = "appended"]
    /\ ret' = Ret("add_terminal_output", <<>>, "append")
    /\ UNCHANGED <<fsVars, current_project, srvVars, extBusy, clock, model, writing,
                   reader_done, stdout_closed, stop_waiting, is_shutdown>>
\* Then the right-hand side self.terminal_history[-50:] is evaluated: a new
\* list, held by the thread.
AddSlice(th) ==
    /\ adding[th].pc = "appended"
    /\ adding' = [adding EXCEPT ![th] = [pc |-> "sliced",
                                         slice |-> LastN(terminal_history, TerminalCap)]]
    /\ ret' = Ret("add_terminal_output", <<>>, "slice")
    /\ UNCHANGED <<fsVars, current_project, terminal_history, emitted, srvVars, extBusy,
                   clock, model, writing, reader_done, stdout_closed, stop_waiting,
                   is_shutdown>>
\* Then self.terminal_history = <that list>.
AddStore(th) ==
    /\ adding[th].pc = "sliced"
    /\ terminal_history' = adding[th].slice
    /\ adding' = [adding EXCEPT ![th] = Idle]
    /\ ret' = Ret("add_terminal_output", <<>>, "store")
    /\ UNCHANGED <<fsVars, current_project, emitted, srvVars, extBusy, clock, model,
                   writing, reader_done, stdout_closed, stop_waiting, is_shutdown>>

\* The read_output thread of process i is in its loop over stdout.
ReaderAlive(i) == i \in 1..Len(procs) /\ i \notin reader_done

\* (mutant) the loop over stdout never sees the end of the stream.
ReaderAtEof_Never(closed, i) == FALSE
\* `for line in self.dev_server_process.stdout` ends when the pipe is closed
\* and every line of it has been read.
ReaderAtEof(closed, i) == i \in closed

\* read_output: one line of the child's output, added to the terminal log.
ReaderRead(i) ==
    /\ ~is_shutdown
    /\ ReaderAlive(i)
    /\ ~ReaderAtEof(stdout_closed, i)
    /\ Emit(<< <<"Serving HTTP", procs[i].port>> >>)
    /\ ret' = Ret("read_output", <<>>, "line")
    /\ UNCHANGED <<fsVars, current_project, srvVars, envVars>>
\* read_output: the loop ends, the function returns and the thread ends.
ReaderEnd(i) ==
    /\ ~is_shutdown
    /\ ReaderAlive(i)
    /\ ReaderAtEof(stdout_closed, i)
    /\ reader_done' = reader_done \cup {i}
    /\ ret' = Ret("read_output", <<>>, "ended")
    /\ UNCHANGED <<fsVars, current_project, terminal_history, emitted, srvVars, extBusy,
                   clock, model, writing, adding, stdout_closed, stop_waiting, is_shutdown>>

\* dev_server_process.terminate(): SIGTERM; obeys: the child exits on it.
Terminate(ps, h, obeys) == IF obeys THEN [ps EXCEPT ![h].state = "exited"] ELSE ps

\* stop_dev_server() up to and including terminate(); the call is now in
\* dev_server_process.wait(), which has no timeout.
StopTerminate(obeys) ==
    /\ ~is_shutdown
    /\ stop_waiting = NoProcess
    /\ ServerRunning(procs, dev_server_process)
    /\ procs' = Terminate(procs, dev_server_process, obeys)
    /\ stop_waiting' = dev_server_process
    /\ ret' = Ret("stop", <<>>, "waiting")
    /\ UNCHANGED <<fsVars, current_project, terminal_history, emitted, dev_server_process,
                   preview_port, extBusy, clock, model, writing, adding, reader_done,
                   stdout_closed, is_shutdown>>
\* wait() returns once the child has exited; the rest of stop_dev_server.
StopWait ==
    /\ ~is_shutdown
    /\ stop_waiting # NoProcess
    /\ ~Alive(procs, stop_waiting)
    /\ Emit(<< <<"Dev server stopped", <<>> >> >>)
    /\ preview_port' = NoPort
    /\ stop_waiting' = NoProcess
    /\ ret' = Ret("stop", <<>>, "stopped")
    /\ UNCHANGED <<fsVars, current_project, procs, dev_server_process, extBusy, clock,
                   model, writing, adding, reader_done, stdout_closed, is_shutdown>>

\* The orchestrator process ends (app.launch returns or the process is
\* killed): its threads end with it, daemon threads included; nothing in the
\* program stops the child processes. signalled: the signal that ended it went
\* to the whole process group (Ctrl-C at the terminal), so the children got it
\* too and exit.
Shutdown(signalled) ==
    /\ ~is_shutdown
    /\ is_shutdown' = TRUE
    /\ procs' = IF signalled THEN [i \in 1..Len(procs) |-> [procs[i] EXCEPT !.state = "exited"]]
                ELSE procs
    /\ reader_done' = 1..Len(procs)
    /\ stop_waiting' = NoProcess
    /\ adding' = [th \in Threads |-> Idle]
    /\ ret' = Ret("shutdown", <<>>, IF signalled THEN "group" ELSE "alone")
    /\ UNCHANGED <<fsVars, current_project, terminal_history, emitted, dev_server_process,
                   preview_port, extBusy, clock, model, writing, stdout_closed>>

\* ---------------------------------------------------------------- environment

\* The child process exits on its own (a crash, or its bind failing).
ProcExit(i) ==
    /\ i \in LiveProcs(procs)
    /\ procs' = [procs EXCEPT ![i].state = "exited"]
    /\ ret' = Ret("env", <<>>, "exit")
    /\ UNCHANGED <<fsVars, current_project, terminal_history, emitted,
                   dev_server_process, preview_port, envVars>>

\* The child process binds the port it was given, or exits when it is taken.
ChildBind(i) ==
    /\ i \in LiveProcs(procs)
    /\ ~procs[i].bound
    /\ procs' = IF procs[i].port \in BusyPorts(procs, extBusy)
                THEN [procs EXCEPT ![i].state = "exited"]
                ELSE [procs EXCEPT ![i].bound = TRUE]
    /\ ret' = Ret("env", <<>>, "bind")
    /\ UNCHANGED <<fsVars, current_project, terminal_history, emitted,
                   dev_server_process, preview_port, envVars>>

\* The output pipe of an exited child is closed and drained (no descendant
\* of the child holds its write end any more).
StdoutClose(i) ==
    /\ i \in 1..Len(procs)
    /\ ~Alive(procs, i)
    /\ i \notin stdout_closed
    /\ stdout_closed' = stdout_closed \cup {i}
    /\ ret' = Ret("env", <<>>, "eof")
    /\ UNCHANGED <<fsVars, current_project, terminal_history, emitted, srvVars, extBusy,
                   clock, model, writing, adding, reader_done, stop_waiting, is_shutdown>>

\* Another process binds, or releases, a port of the range.
ExtPorts == PortStart..(PortStart + MaxExtPorts - 1)
ExtClaim(p) ==
    /\ p \notin BusyPorts(procs, extBusy)
    /\ extBusy' = extBusy \cup {p}
    /\ ret' = Ret("env", <<>>, "claim")
    /\ UNCHANGED <<fsVars, current_project, terminal_history, emitted, srvVars, clock, model, writing, thrVars>>
ExtRelease(p) ==
    /\ p \in extBusy
    /\ extBusy' = extBusy \ {p}
    /\ ret' = Ret("env", <<>>, "release")
    /\ UNCHANGED <<fsVars, current_project, terminal_history, emitted, srvVars, clock, model, writing, thrVars>>

\* meta.json of an existing directory is overwritten with text that is not JSON
\* (an editor, a torn write), or removed.
CorruptMeta(d) ==
    /\ d \in DOMAIN fs
    /\ fs[d].meta.kind = "json"
    /\ fs' = [fs EXCEPT ![d].meta = CorruptFile]
    /\ ret' = Ret("env", <<>>, "corrupt")
    /\ UNCHANGED <<appended, current_project, terminal_history, emitted, srvVars, envVars>>

\* meta.json of an existing directory is removed (a legacy project).
RemoveMeta(d) ==
    /\ d \in DOMAIN fs
    /\ fs[d].meta.kind # "absent"
    /\ fs' = [fs EXCEPT ![d].meta = AbsentFile]
    /\ ret' = Ret("env", <<>>, "unlink")
    /\ UNCHANGED <<appended, current_project, terminal_history, emitted, srvVars, envVars>>

\* ------------------------------------------------------------- specifications

\* A project directory as an earlier session's create_project left it.
OnDisk(f, name, project_type) ==
    PutFiles(WriteMeta(PutFile(MkdirP(f, JoinName(name)), JoinName(name),
                               <<"screenshots">>, "dir"),
                       JoinName(name), NewMeta(name, project_type, 0)),
             JoinName(name), Scaffold(project_type))

\* The workspace directory as __init__ finds or makes it: empty, or holding
\* the projects `pre` (a set of <<name, type>>) of earlier sessions.
RECURSIVE WorkspaceWith(_)
WorkspaceWith(pre) ==
    IF pre = {} THEN [d \in {<<>>, workspace_dir} |-> EmptyDir]
    ELSE LET e == CHOOSE x \in pre : TRUE
         IN OnDisk(WorkspaceWith(pre \ {e}), e[1], e[2])

\* __init__: no active project, no process, no port, an empty terminal log.
InitWith(pre, ext) ==
    /\ fs = WorkspaceWith(pre)
    /\ appended = [d \in DOMAIN WorkspaceWith(pre) |-> <<>>]
    /\ current_project = NoProject
    /\ terminal_history = <<>>
    /\ procs = <<>>
    /\ dev_server_process = NoProcess
    /\ preview_port = NoPort
    /\ model = FALSE
    /\ writing = NoWrite
    /\ extBusy = ext
    /\ clock = 0
    /\ emitted = <<>>
    /\ adding = [th \in Threads |-> Idle]
    /\ reader_done = {}
    /\ stdout_closed = {}
    /\ stop_waiting = NoProcess
    /\ is_shutdown = FALSE
    /\ ret = Ret("init", <<>>, "ok")

\* The projects an earlier session may have left for the supervisor specification.
SrvOnDisk == {<< <<"a">>, "HTML/Bootstrap" >>, << <<"b">>, "React" >>}

\* Another process may already hold the first port of the range.
Init == \E ext \in {{}, {PortStart}} : InitWith(SrvOnDisk, ext)

\* The names and types the supervisor specification calls the registry with.
SrvNames == {<<"a">>, <<"b">>}
SrvTypes == {"React", "HTML/Bootstrap"}

\* A behaviour writes at most MaxLines terminal lines and spawns at most
\* MaxSpawn processes.
WithinBounds == nLines' <= MaxLines /\ Len(procs') <= MaxSpawn

\* The calls the user interface makes, and what the environment does meanwhile.
SrvCreate == \E n \in SrvNames, t \in SrvTypes : CreateProject(n, t, "none") /\ WithinBounds
SrvLoad == \E n \in SrvNames : LoadProject(n) /\ WithinBounds
SrvDelete == \E n \in SrvNames : DeleteProject(n, FALSE) /\ WithinBounds
SrvStart == \E i \in InstallOutcomes, s \in BOOLEAN : StartDevServer(i, s) /\ WithinBounds
SrvStop == StopDevServer /\ WithinBounds
SrvProcExit == \E i \in 1..Len(procs) : ProcExit(i)
SrvChildBind == \E i \in 1..Len(procs) : ChildBind(i)

Next ==
    \/ SrvCreate
    \/ SrvLoad
    \/ SrvDelete
    \/ SrvStart
    \/ SrvStop
    \/ SrvProcExit
    \/ SrvChildBind

Spec == Init /\ [][Next]_vars

\* The generation-log specification: one project on disk, loaded, and a
\* session of generations one millisecond apart; the t-th request alternates
\* its target file, its prompt and whether a screenshot was saved.
LogOnDisk == {<< <<"a">>, "HTML/Bootstrap" >>}
LogTarget(t) == IF t % 2 = 0 THEN "index.html" ELSE "css/style.css"
LogPrompt(t) == IF t % 3 = 0 THEN <<>> ELSE <<"p">>
LogScreenshot(t) == IF t % 2 = 0 THEN None ELSE "0_css_style.css.png"

InitLog == InitWith(LogOnDisk, {})

LogLoad == \E n \in {<<"a">>} : LoadProject(n) /\ nLines' <= MaxLines
LogGenerate ==
    /\ clock < MaxAppends
    /\ RecordGeneration(1, LogTarget(clock + 1), LogPrompt(clock + 1), LogScreenshot(clock + 1))
LogCorruptMeta == clock <= MaxFaultClock /\ \E d \in DOMAIN fs : CorruptMeta(d)
LogRemoveMeta == clock <= MaxFaultClock /\ \E d \in DOMAIN fs : RemoveMeta(d)

NextLog ==
    \/ LogLoad
    \/ LogGenerate
    \/ LogCorruptMeta
    \/ LogRemoveMeta

SpecLog == InitLog /\ [][NextLog]_vars

\* The registry specification: an empty or one-project workspace, names with blanks and dots,
\* every project type, every step of create_project failing, and meta.json
\* damaged or removed from outside.
RegNames == {<<>>, <<" ">>, <<"a">>, <<" ", "a">>, <<".", "a">>}
RegTypes == {"React", "HTML/Bootstrap"}

RegOnDisk == {<< <<"a">>, "React" >>}
InitReg == \E pre \in {{}, RegOnDisk} : InitWith(pre, {})

RegCreate ==
    \E n \in RegNames, t \in RegTypes :
        CreateProject(n, t, "none") /\ nLines' <= MaxRegLines
\* A step of create_project raises (disk full, permissions) while "a" is made.
RegCreateFails ==
    \E t \in RegTypes, failAt \in CreateFailures \ {"none"} :
        CreateProject(<<"a">>, t, failAt) /\ nLines' <= MaxRegLines
RegLoad == \E n \in RegNames : LoadProject(n) /\ nLines' <= MaxRegLines
RegDelete ==
    \E n \in RegNames, rmFail \in BOOLEAN : DeleteProject(n, rmFail) /\ nLines' <= MaxRegLines
RegCorruptMeta == \E d \in DOMAIN fs : CorruptMeta(d)
RegRemoveMeta == \E d \in DOMAIN fs : RemoveMeta(d)

NextReg ==
    \/ RegCreate
    \/ RegCreateFails
    \/ RegLoad
    \/ RegDelete
    \/ RegCorruptMeta
    \/ RegRemoveMeta

SpecReg == InitReg /\ [][NextReg]_vars

\* refresh_project_list: the table and the selector are filled from
\* get_workspace_projects().
RefreshProjectList ==
    /\ ret' = [Ret("list", <<>>, IF GetWorkspaceProjects(fs).raised THEN "raised" ELSE "ok")
                  EXCEPT !.listed = GetWorkspaceProjects(fs).projects]
    /\ UNCHANGED <<fsVars, current_project, terminal_history, emitted, srvVars, envVars>>

\* The listing specification: a workspace holding any of four project
\* directories (one of them hidden) left by earlier sessions, whose
\* descriptors are damaged or removed from outside between refreshes.
ListOnDisk ==
    {<< <<"a">>, "React" >>, << <<"b">>, "HTML/Bootstrap" >>,
     << <<"a", "b">>, "Vue" >>, << <<".", "a">>, "Next.js" >>}

InitList == \E pre \in SUBSET ListOnDisk : InitWith(pre, {})

ListRefresh == RefreshProjectList
ListCorruptMeta == \E d \in DOMAIN fs : CorruptMeta(d)
ListRemoveMeta == \E d \in DOMAIN fs : RemoveMeta(d)

NextList ==
    \/ ListRefresh
    \/ ListCorruptMeta
    \/ ListRemoveMeta

SpecList == InitList /\ [][NextList]_vars

\* The path specification: project "a" on disk, and the registry called with
\* names that hold a separator or are "." or "..".
PathOnDisk == {<< <<"a">>, "React" >>}
PathNames ==
    {<<"a">>, <<".">>, <<".", ".">>, <<"a", "/", "b">>, <<".", ".", "/", "x">>}

InitPath == InitWith(PathOnDisk, {})

PathCreate == \E n \in PathNames : CreateProject(n, "React", "none") /\ nLines' <= MaxRegLines
PathLoad == \E n \in PathNames : LoadProject(n) /\ nLines' <= MaxRegLines
PathDelete == \E n \in PathNames : DeleteProject(n, FALSE) /\ nLines' <= MaxRegLines

NextPath ==
    \/ PathCreate
    \/ PathLoad
    \/ PathDelete

SpecPath == InitPath /\ [][NextPath]_vars

\* The descriptor-write specification: project "a" on disk and loaded, its
\* generations saved step by step while the project list is refreshed from
\* another thread of the user interface.
WriteOnDisk == {<< <<"a">>, "HTML/Bootstrap" >>}

InitWrite == InitWith(WriteOnDisk, {})

WriteLoad == \E n \in {<<"a">>} : LoadProject(n) /\ nLines' <= MaxLines
WriteSaveOpen ==
    /\ clock < MaxWrites
    /\ \E shot \in {None, "0_index.html.png"}, prompt \in {<<>>, <<"p">>} :
          SaveOpen(1, "index.html", prompt, shot)
WriteSaveDump == SaveDump
WriteRefresh == RefreshProjectList

NextWrite ==
    \/ WriteLoad
    \/ WriteSaveOpen
    \/ WriteSaveDump
    \/ WriteRefresh

SpecWrite == InitWrite /\ [][NextWrite]_vars

\* The port specification: the HTML project "a" on disk; other processes hold
\* none, the first, or all of the ports of the range, bind and release ports,
\* and may take the probed port before the child binds it.
RaceOnDisk == {<< <<"a">>, "HTML/Bootstrap" >>}

InitRace ==
    \E ext \in {{}, {PortStart}, PortStart..(PortEnd - 1)} : InitWith(RaceOnDisk, ext)

RaceLoad == \E n \in {<<"a">>} : LoadProject(n) /\ WithinBounds
RaceStart ==
    \E s \in BOOLEAN, raced \in BOOLEAN : StartDevServerWith("ok", s, raced) /\ WithinBounds
RaceStop == StopDevServer /\ WithinBounds
RaceChildBind == \E i \in 1..Len(procs) : ChildBind(i)
RaceExtClaim == \E p \in ExtPorts : ExtClaim(p)
RaceExtRelease == \E p \in ExtPorts : ExtRelease(p)

NextRace ==
    \/ RaceLoad
    \/ RaceStart
    \/ RaceStop
    \/ RaceChildBind
    \/ RaceExtClaim
    \/ RaceExtRelease

SpecRace == InitRace /\ [][NextRace]_vars

\* The generation specification: the HTML project "a" on disk; the model is
\* loaded, the project loaded, and images are generated into two target
\* files whose screenshot names coincide, with short and long prompts, with
\* and without a screenshot, with the model call failing or not, within the
\* same millisecond or a second later; the history, the screenshot choices
\* and single generations are read back.
GenOnDisk == {<< <<"a">>, "HTML/Bootstrap" >>}
GenTargets == {"css/style.css", "css_style.css"}
Prompt50 == [i \in 1..PromptCap |-> "p"]
\* The prompt typed for a request: none, one of exactly 50 characters, or one of 51.
GenPrompt(target, shot) ==
    IF target = "css/style.css" THEN (IF shot THEN <<>> ELSE Prompt50)
    ELSE (IF shot THEN Prompt50 \o <<"q">> ELSE <<>>)
GenElapsed == {0, 1000}
GenIds == {"gen_" \o ToString(t) : t \in {0, 1000}}

InitGen == InitWith(GenOnDisk, {})

GenLoadModel == ~model /\ LoadModel
GenLoad == \E n \in {<<"a">>} : LoadProject(n) /\ nLines' <= MaxGenLines
\* The image given: one per duration, so that two requests differ in it.
GenImage(elapsed) == IF elapsed = 0 THEN "img0" ELSE "img1"
GenGenerate ==
    \E target \in GenTargets, shot \in BOOLEAN, elapsed \in GenElapsed :
        /\ GenerateCode(GenImage(elapsed), target, GenPrompt(target, shot), shot, TRUE, elapsed)
        /\ nLines' <= MaxGenLines
\* The model call raises (out of memory, a bad image) after the screenshot.
GenGenerateFails ==
    \E shot \in BOOLEAN :
        /\ GenerateCode("img", "css/style.css", <<>>, shot, FALSE, 0)
        /\ nLines' <= MaxGenLines
GenHistory == RefreshHistory /\ nLines' <= MaxGenLines
GenChoices == RefreshScreenshotDropdown
GenReload == \E id \in GenIds : ReloadGeneration(id) /\ nLines' <= MaxGenLines
GenCorruptMeta ==
    /\ clock <= MaxFaultClock
    /\ current_project # NoProject
    /\ CorruptMeta(Resolve(current_project))

NextGen ==
    \/ GenLoadModel
    \/ GenLoad
    \/ GenGenerate
    \/ GenGenerateFails
    \/ GenHistory
    \/ GenChoices
    \/ GenReload
    \/ GenCorruptMeta

SpecGen == InitGen /\ [][NextGen]_vars

\* The terminal-log specification: the HTML project loaded and its server
\* started; then the read_output thread and a handler thread each call
\* add_terminal_output, their statements interleaved.
InitTerm == InitWith(GenOnDisk, {})

AllIdle == \A th \in Threads : adding[th] = Idle
TermLoad == AllIdle /\ current_project = NoProject /\ LoadProject(<<"a">>)
TermStart == AllIdle /\ current_project # NoProject /\ StartDevServer("ok", TRUE)
TermRead ==
    /\ \E i \in 1..Len(procs) : ReaderAlive(i) /\ ~ReaderAtEof(stdout_closed, i)
    /\ AddAppend("read_output", "Serving HTTP", preview_port)
    /\ nLines' <= MaxTermLines
\* generate_code's first add_terminal_output, in the thread of the handler.
TermHandler ==
    /\ current_project # NoProject
    /\ AddAppend("handler", "Generating code for", "index.html")
    /\ nLines' <= MaxTermLines
TermSlice == \E th \in Threads : AddSlice(th)
TermStore == \E th \in Threads : AddStore(th)

NextTerm ==
    \/ TermLoad
    \/ TermStart
    \/ TermRead
    \/ TermHandler
    \/ TermSlice
    \/ TermStore

SpecTerm == InitTerm /\ [][NextTerm]_vars

\* The process specification: the life of the dev-server processes, of their
\* read_output threads and of the orchestrator process itself.
InitProc == InitWith(GenOnDisk, {})

\* A behaviour writes at most MaxProcLines terminal lines, the line of a
\* stop_dev_server call that is in wait() counted from its start.
ProcWithin == nLines' + (IF stop_waiting' # NoProcess THEN 1 ELSE 0) <= MaxProcLines
ProcLoad == ~is_shutdown /\ LoadProject(<<"a">>) /\ ProcWithin
ProcStart ==
    /\ ~is_shutdown
    /\ current_project # NoProject
    /\ StartDevServer("ok", TRUE)
    /\ Len(procs') <= MaxSpawn
    /\ ProcWithin
ProcStopTerminate == \E obeys \in BOOLEAN : StopTerminate(obeys) /\ ProcWithin
ProcStopWait == StopWait
ProcDelete ==
    /\ ~is_shutdown
    /\ stop_waiting = NoProcess
    /\ DeleteProject(<<"a">>, FALSE)
    /\ ProcWithin
ProcChildExit == \E i \in 1..Len(procs) : ProcExit(i)
ProcStdoutClose == \E i \in 1..Len(procs) : StdoutClose(i)
ProcReaderRead == \E i \in 1..Len(procs) : ReaderRead(i) /\ ProcWithin
ProcReaderEnd == \E i \in 1..Len(procs) : ReaderEnd(i)
ProcShutdown == \E signalled \in BOOLEAN : Shutdown(signalled)

NextProc ==
    \/ ProcLoad
    \/ ProcStart
    \/ ProcStopTerminate
    \/ ProcStopWait
    \/ ProcDelete
    \/ ProcChildExit
    \/ ProcStdoutClose
    \/ ProcReaderRead
    \/ ProcReaderEnd
    \/ ProcShutdown

SpecProc == InitProc /\ [][NextProc]_vars

\* The same with the scheduling the threads get: a read_output thread whose
\* stream is at its end runs, and a wait() whose child has exited returns.
\* The child processes are under no such condition.
SpecProcFair ==
    /\ SpecProc
    /\ \A i \in 1..MaxSpawn : WF_vars(ReaderEnd(i))
    /\ WF_vars(StopWait)

\* ------------------------------------------------------------------- claims

\* C1: no live dev-server process has as its working directory a project
\* directory that delete_project has removed (every live child's working
\* directory still exists).
C1_NoOrphanInDeletedDir ==
    \A i \in LiveProcs(procs) : procs[i].cwd \in DOMAIN fs

\* C2: delete_project on the active project while its dev server runs: the
\* server has exited before rmtree runs, and when delete returns no process is
\* alive and the active-project pointer is cleared.
DeleteOfRunningActive ==
    /\ current_project # NoProject
    /\ ServerRunning(procs, dev_server_process)
    /\ procs[dev_server_process].cwd = Resolve(current_project)
C2_DeleteActiveStopsFirst ==
    [][\A n \in SrvNames :
         (DeleteOfRunningActive /\ Resolve(JoinName(n)) = Resolve(current_project)
            /\ DeleteProject(n, FALSE))
         => /\ ~ret'.orphaned
            /\ LiveProcs(procs') = {}
            /\ current_project' = NoProject
            /\ Resolve(JoinName(n)) \notin DOMAIN fs']_vars
\* C2 witness: a delete of the active project has just stopped its server.
C2_Witness ==
    /\ ret.op = "delete" /\ ret.status = "ok"
    /\ dev_server_process # NoProcess
    /\ procs[dev_server_process].cwd = Resolve(JoinName(ret.arg))
    /\ Len(terminal_history) >= 2
    /\ terminal_history[Len(terminal_history) - 1][2] = "Dev server stopped"

\* C3: at most one dev-server child process of the instance is alive, and
\* start_dev_server spawns only when the recorded handle is absent or exited.
C3_AtMostOneLiveProcess ==
    /\ [](Cardinality(LiveProcs(procs)) <= 1)
    /\ [][Len(procs') > Len(procs) => ~ServerRunning(procs, dev_server_process)]_vars
\* C3 witness: a second process was spawned after the first had exited.
C3_Witness ==
    /\ Len(procs) = 2
    /\ ~Alive(procs, 1)
    /\ Alive(procs, 2)
    /\ dev_server_process = 2

\* C4: start_dev_server while the server is running returns the port the
\* running server was started with, spawns nothing, probes no port and leaves
\* the process handle and preview_port unchanged.
C4_StartWhileRunningIdempotent ==
    [][(ServerRunning(procs, dev_server_process)
          /\ \E i \in InstallOutcomes, s \in BOOLEAN : StartDevServer(i, s))
       => /\ ret'.status = "already_running"
          /\ ret'.port = procs[dev_server_process].port
          /\ ~ret'.spawned
          /\ ret'.probes = 0
          /\ procs' = procs
          /\ dev_server_process' = dev_server_process
          /\ preview_port' = preview_port]_vars
\* C4 witness: a second start has just answered for a server that still runs
\* on a port other than the first of the range.
C4_Witness ==
    /\ ret.op = "start" /\ ret.status = "already_running"
    /\ ServerRunning(procs, dev_server_process)
    /\ ret.port = PortStart + 1

\* get_preview_html: a preview is offered exactly when preview_port is set.
GetPreviewHtml(port) == IF port = NoPort THEN "No preview available" ELSE "iframe"

\* C9: a start that fails in the dependency install or in the spawn leaves no
\* live process and no recorded port, so no preview is offered.
C9_FailedStartLeavesStopped ==
    (ret.op = "start" /\ ret.status \in {"install_failed", "error"})
    => /\ LiveProcs(procs) = {}
       /\ preview_port = NoPort
       /\ GetPreviewHtml(preview_port) = "No preview available"

\* The generation log json.load reads from a directory's meta.json.
PersistedLog(d) == JsonLoad(fs[d].meta.doc[1]).generations
Readable(d) == d \in DOMAIN fs /\ fs[d].meta.kind = "json"

\* C5: the persisted generation log never holds more than 50 records, and an
\* append to a log of 50 records removes exactly the oldest one.
C5_LogCappedOldestEvicted ==
    /\ [](\A d \in DOMAIN fs : Readable(d) => Len(PersistedLog(d)) <= HistoryCap)
    /\ [][\A d \in DOMAIN fs :
            (Readable(d) /\ Len(PersistedLog(d)) = HistoryCap
               /\ LogGenerate /\ ret'.status = "ok" /\ d = Resolve(current_project))
            => /\ Len(PersistedLog(d)') = HistoryCap
               /\ SubSeq(PersistedLog(d)', 1, HistoryCap - 1) = Tail(PersistedLog(d))
               /\ PersistedLog(d)'[HistoryCap].generation_id = "gen_" \o ToString(clock')]_vars
\* C5 witness: a 51st record has just been appended to a full log.
C5_Witness ==
    /\ ret.op = "generate" /\ ret.status = "ok"
    /\ Len(appended[Resolve(current_project)]) > HistoryCap
    /\ Len(PersistedLog(Resolve(current_project))) = HistoryCap

\* C6: the persisted log is the last min(n, 50) of the n records appended since
\* the log was empty, in append order and field for field.
C6_LogIsLastAppended ==
    \A d \in DOMAIN fs :
        Readable(d) => PersistedLog(d) = LastN(appended[d], HistoryCap)
\* C6 witness: more than 50 records were appended, with and without screenshot.
C6_Witness ==
    \E d \in DOMAIN fs :
        /\ Readable(d)
        /\ Len(appended[d]) = HistoryCap + 2
        /\ PersistedLog(d)[1] = appended[d][3]
        /\ \E i \in 1..HistoryCap : PersistedLog(d)[i].screenshot = None
        /\ \E i \in 1..HistoryCap : PersistedLog(d)[i].screenshot # None

\* The names get_workspace_projects returns, in order.
ListedNames(f) ==
    [i \in 1..Len(GetWorkspaceProjects(f).projects) |-> GetWorkspaceProjects(f).projects[i].name]
Occurrences(seq, x) == Cardinality({i \in 1..Len(seq) : seq[i] = x})

\* C7: for every valid project name, right after a successful create_project
\* the list of get_workspace_projects contains that name exactly once and
\* load_project on that name succeeds.
C7_CreatedIsListedOnceAndLoads ==
    (ret.op = "create" /\ ret.status = "ok" /\ ValidName(ret.arg)) =>
        /\ ~GetWorkspaceProjects(fs).raised
        /\ Occurrences(ListedNames(fs), ret.arg) = 1
        /\ LoadStatus(fs, ret.arg) = "ok"

\* C8: create_project on a name whose directory exists always returns the
\* already-exists result and leaves the file system (descriptors, generation
\* logs, files) and the active-project pointer unchanged.
C8_CreateOnExistingIsRejected ==
    [][\A n \in RegNames, t \in RegTypes :
          (ValidName(n) /\ Exists(fs, JoinName(Strip(n))) /\ CreateProject(n, t, "none")) =>
              /\ ret'.status = "already_exists"
              /\ fs' = fs
              /\ current_project' = current_project]_vars

\* C10: load_project on an existing project whose meta.json is malformed
\* completes without raising, makes the project active and returns defaults.
C10_LoadOfCorruptMetaCompletes ==
    (/\ ret.op = "load"
     /\ Exists(fs, JoinName(ret.arg))
     /\ MetaOf(fs, JoinName(ret.arg)).kind = "corrupt") =>
        /\ ret.status = "ok"
        /\ current_project = JoinName(ret.arg)
        /\ ret.default_file = "src/App.jsx"

\* The project directories of the workspace: its child directories that are
\* not hidden.
ProjectDirs(f) ==
    {d \in DOMAIN f : Len(d) = 2 /\ d[1] = workspace_dir[1] /\ d[2][1] # "."}

UnsafeName(n) ==
    \/ \E i \in 1..Len(n) : n[i] = "/"
    \/ n = <<".">>
    \/ n = <<".", ".">>
\* A direct child directory of the workspace directory.
DirectChild(d) == Len(d) = Len(workspace_dir) + 1 /\ IsPrefix(workspace_dir, d)

\* C12: create_project, load_project and delete_project reject every name that
\* holds a path separator or is "." or "..": the workspace directory and its
\* parent are never removed, no directory is made outside the direct children
\* of the workspace, and the active project is a direct child.
C12_TraversalNamesRejected ==
    /\ (ret.op \in {"create", "load", "delete"} /\ UnsafeName(ret.arg)) =>
           ret.status = "invalid"
    /\ {<<>>, workspace_dir} \subseteq DOMAIN fs
    /\ \A d \in DOMAIN fs \ {<<>>, workspace_dir} : DirectChild(d)
    /\ current_project # NoProject => DirectChild(Resolve(current_project))

\* C13: a reader of meta.json that runs while a descriptor is being written
\* sees the complete previous descriptor or the complete new one: the refresh
\* of the project list never finds the descriptor of a project that has one
\* unreadable.
C13_ReadersSeeWholeDescriptor ==
    /\ \A d \in DOMAIN fs : fs[d].meta.kind # "corrupt"
    /\ ret.op = "list" => \A i \in 1..Len(ret.listed) : ret.listed[i].type # "Unknown"

\* C14: when another process takes the probed port before the child binds it,
\* so that the child started by start_dev_server has exited without binding,
\* start_dev_server reports a failure, not a server on that port.
C14_PortRaceReportedAsFailure ==
    (/\ ret.op = "start"
     /\ ret.raced
     /\ ~ServerRunning(procs, dev_server_process)
     /\ ret.port \in extBusy) => ret.status # "ok"

\* C15: stop_dev_server on a running server leaves the supervisor stopped:
\* the process has exited, preview_port is cleared, no process of ours holds
\* the port, and unless another process holds it a start can bind it again.
C15_StopLeavesStopped ==
    [][(ServerRunning(procs, dev_server_process) /\ StopDevServer) =>
          /\ ret'.status = "stopped"
          /\ ~ServerRunning(procs', dev_server_process')
          /\ LiveProcs(procs') = {}
          /\ preview_port' = NoPort
          /\ procs[dev_server_process].port \notin BusyPorts(procs', {})
          /\ procs[dev_server_process].port \notin extBusy' =>
                FindAvailablePort(procs[dev_server_process].port, PortEnd,
                                  BusyPorts(procs', extBusy'))
                    = procs[dev_server_process].port]_vars
\* A server that had bound its port has been stopped.
C15_Witness ==
    /\ ret.op = "stop"
    /\ ret.status = "stopped"
    /\ procs[dev_server_process].bound
    /\ procs[dev_server_process].port \notin extBusy

\* C16: stop_dev_server when no process is live returns the no-server result
\* and changes neither the handle, the recorded port, the active project nor
\* the terminal log (nor any process).
C16_StopWithoutServerIsNoOp ==
    [][(~ServerRunning(procs, dev_server_process) /\ StopDevServer) =>
          /\ ret'.status = "no_server"
          /\ UNCHANGED <<dev_server_process, preview_port, current_project,
                         terminal_history, procs, fs>>]_vars
\* A stop with no live process while a port is still recorded.
C16_Witness ==
    /\ ret.op = "stop"
    /\ ret.status = "no_server"
    /\ preview_port # NoPort

\* C17: a successful start returns a port of 3000..3099 that was bindable when
\* probed and below which every port of the range was taken; when no port of
\* the range is bindable, start returns the no-ports result and spawns nothing.
C17_LowestBindablePort ==
    [][\A s \in BOOLEAN, raced \in BOOLEAN :
          StartDevServerWith("ok", s, raced) =>
              /\ ret'.status = "ok" =>
                    /\ ret'.port \in PortStart..(PortEnd - 1)
                    /\ ret'.port \notin BusyPorts(procs, extBusy)
                    /\ \A q \in PortStart..(ret'.port - 1) : q \in BusyPorts(procs, extBusy)
              /\ ret'.status = "already_running" => ret'.port \in PortStart..(PortEnd - 1)
              /\ (/\ current_project # NoProject
                  /\ ~ServerRunning(procs, dev_server_process)
                  /\ PortStart..(PortEnd - 1) \subseteq BusyPorts(procs, extBusy)) =>
                    /\ ret'.status = "no_ports"
                    /\ procs' = procs]_vars
\* A start that found the first port taken and returned the next one.
C17_Witness ==
    /\ ret.op = "start"
    /\ ret.status = "ok"
    /\ ret.port = PortStart + 1
\* A start that found every port of the range taken.
C17_RangeExhausted ==
    /\ ret.op = "start"
    /\ ret.status = "no_ports"
    /\ ret.probes = PortEnd - PortStart

\* C18: a load_project that succeeds sets the active project to the named
\* project and changes no file; a load_project that fails on an empty name or
\* a missing project leaves the active project (and the files) unchanged.
C18_LoadSetsPointerOnlyOnSuccess ==
    [][\A n \in RegNames :
          LoadProject(n) =>
              /\ fs' = fs
              /\ ret'.status = "ok" => current_project' = JoinName(n)
              /\ ret'.status \in {"invalid", "not_found"} =>
                    current_project' = current_project]_vars
\* A load of a missing project while another project is active.
C18_Witness ==
    /\ ret.op = "load"
    /\ ret.status = "not_found"
    /\ current_project # NoProject
    /\ Exists(fs, current_project)

\* C19: delete_project on a name with no directory returns the not-found
\* result and leaves the file system, the active project, the server handle,
\* the recorded port and every process unchanged.
C19_DeleteOfMissingIsReported ==
    [][\A n \in SrvNames, rmFail \in BOOLEAN :
          (~Exists(fs, JoinName(n)) /\ DeleteProject(n, rmFail)) =>
              /\ ret'.status = "not_found"
              /\ UNCHANGED <<fs, current_project, procs, dev_server_process,
                             preview_port, terminal_history>>]_vars
\* A delete of a missing project while the dev server runs.
C19_Witness ==
    /\ ret.op = "delete"
    /\ ret.status = "not_found"
    /\ ServerRunning(procs, dev_server_process)

\* C20: after a create_project call that went past the exists test, whether
\* it succeeded or failed part-way, the project directory and a complete
\* meta.json exist together or not at all.
C20_DirAndDescriptorTogether ==
    (ret.op = "create" /\ ret.status \in {"ok", "error"}) =>
        (Exists(fs, JoinName(Strip(ret.arg))) =>
            MetaOf(fs, JoinName(Strip(ret.arg))).kind = "json")

\* The number int(time.time() * 1000) a generation identifier was made from.
IdNumber(generation_id) ==
    CHOOSE t \in {1000 * k : k \in 0..MaxGenLines} : "gen_" \o ToString(t) = generation_id

\* C21: the generation identifiers of a project's log are pairwise distinct
\* and strictly increasing in append order, also for generations that are
\* recorded within the same millisecond.
C21_IdsDistinctIncreasing ==
    \A d \in DOMAIN fs :
        Readable(d) =>
            \A i, j \in 1..Len(PersistedLog(d)) :
                i < j => /\ PersistedLog(d)[i].generation_id # PersistedLog(d)[j].generation_id
                         /\ IdNumber(PersistedLog(d)[i].generation_id)
                               < IdNumber(PersistedLog(d)[j].generation_id)

\* The log of the active project as read from disk, and the records of it
\* that refer to the screenshot `name`.
ActiveLog == PersistedLog(Resolve(current_project))
RecordsOf(name) == {k \in 1..Len(ActiveLog) : ActiveLog[k].screenshot = name}
ChoicesAnswered ==
    /\ ret.op = "choices" /\ ret.status = "ok"
    /\ current_project # NoProject /\ Readable(Resolve(current_project))

C22_UnknownReached ==
    /\ ChoicesAnswered
    /\ \E i \in 1..Len(ret.choices) : ret.choices[i].target_file = "Unknown"

\* The records of the active project's log that carry generation_id `id`.
RecordsWithId(id) == {k \in 1..Len(ActiveLog) : ActiveLog[k].generation_id = id}

\* C23: a reload by generation id returns the record (target file and prompt)
\* for every id present in the active project's log, whether or not the record
\* has a screenshot, and reports not-found only for ids absent from the log.
C23_LookupByIdFindsRecord ==
    (/\ ret.op = "reload" /\ ret.status # "invalid"
     /\ current_project # NoProject /\ Readable(Resolve(current_project)))
    => /\ (RecordsWithId(ret.arg) # {}) <=> (ret.status = "loaded")
       /\ RecordsWithId(ret.arg) # {} =>
             \E k \in RecordsWithId(ret.arg) :
                 /\ ret.record[1].target_file = ActiveLog[k].target_file
                 /\ ret.record[1].prompt = ActiveLog[k].prompt

\* The history table has just been read from a readable log.
HistoryAnswered ==
    /\ ret.op = "history"
    /\ current_project # NoProject /\ Readable(Resolve(current_project))
\* view `v` shows prompt `p`: whole up to 50 characters, else the first 50
\* followed by an ellipsis.
ShowsPrompt(v, p) ==
    IF Len(p) <= 50 THEN v = p
    ELSE /\ Len(v) = 53
         /\ \A c \in 1..50 : v[c] = p[c]
         /\ \A c \in 51..53 : v[c] = "."

\* C24: load_generation_history returns one view per record of the log,
\* newest first (the exact reverse of the append order); each view's prompt is
\* the full prompt when it has at most 50 characters and otherwise its first
\* 50 characters followed by an ellipsis, and its screenshot flag is set
\* exactly when the record has a screenshot reference.
C24_HistoryNewestFirstWithPreview ==
    HistoryAnswered =>
        /\ Len(ret.history) = Len(ActiveLog)
        /\ \A i \in 1..Len(ret.history) :
              LET gen == ActiveLog[Len(ActiveLog) + 1 - i] IN
              /\ ret.history[i].ID = gen.generation_id
              /\ ret.history[i].File = gen.target_file
              /\ ShowsPrompt(ret.history[i].Prompt, gen.prompt)
              /\ ret.history[i].Screenshot <=> gen.screenshot \notin {None, ""}
\* A history of two or more records with different target files, one with a
\* prompt of exactly 50 characters and no screenshot, one with a prompt of 51
\* characters and a screenshot.
C24_Witness ==
    /\ HistoryAnswered
    /\ \E i, j \in 1..Len(ret.history) :
          /\ i < j
          /\ ret.history[i].File # ret.history[j].File
    /\ \E k \in 1..Len(ActiveLog) :
          Len(ActiveLog[k].prompt) = 50 /\ ActiveLog[k].screenshot = None
    /\ \E k \in 1..Len(ActiveLog) :
          Len(ActiveLog[k].prompt) = 51 /\ ActiveLog[k].screenshot # None

\* C25: every operation returns a result or an error value and never raises to
\* its caller, whatever the input and the state on disk, a malformed meta.json
\* of the active project included.
C25_NoOperationRaises == ret.status # "raised"

\* The terminal lines of save_screenshot, and the target file of the
\* generate_code call that made line k (its "Generating code for" line).
SavedLines == {k \in 3..Len(terminal_history) : terminal_history[k][2] = "Saved screenshot"}
TargetOfSave(k) == terminal_history[k - 2][3]
\* The target file with every path separator replaced by an underscore.
Underscored(target_file) ==
    IF target_file = "css/style.css" THEN "css_style.css" ELSE target_file

C26_DistinctSecondsReached ==
    /\ ret.op = "generate" /\ ret.status = "ok"
    /\ \E k, m \in SavedLines :
          /\ terminal_history[k][1] # terminal_history[m][1]
          /\ TargetOfSave(k) = TargetOfSave(m)
    /\ Len(ScreenshotFiles(fs, current_project)) = 2

\* C27: the terminal log never exceeds 50 lines and, whenever no thread is
\* inside add_terminal_output, equals the last min(n, 50) of the n lines
\* appended so far, in append order, also when the read_output thread and a
\* handler append concurrently.
C27_TerminalLogKeepsEveryLine ==
    /\ AllIdle => Len(terminal_history) <= TerminalCap
    /\ AllIdle => terminal_history = LastN(emitted, TerminalCap)

\* C28: the read_output thread of a process ends once the process has exited
\* and its output stream is closed, however the process came to exit; and a
\* start_dev_server call that spawns returns with that thread still running.
C28_ReaderEndsWithProcess ==
    /\ \A i \in 1..MaxSpawn :
          (i \in 1..Len(procs) /\ ~Alive(procs, i) /\ i \in stdout_closed) ~> (i \in reader_done)
    /\ [][(ret'.op = "start" /\ ret'.spawned)
            => (ReaderAlive(dev_server_process) /\ Alive(procs, dev_server_process))']_vars
\* A read_output thread has ended after stop_dev_server ended its process,
\* with the orchestrator still running.
C28_Witness ==
    /\ ~is_shutdown
    /\ ret.op = "read_output" /\ ret.status = "ended"
    /\ \E k \in 1..Len(terminal_history) : terminal_history[k][2] = "Dev server stopped"
    /\ current_project # NoProject
\* The same after delete_project of the active project.
C28_AfterDeleteReached ==
    /\ ~is_shutdown
    /\ ret.op = "read_output" /\ ret.status = "ended"
    /\ \E k \in 1..Len(terminal_history) : terminal_history[k][2] = "Deleted project"
\* The same after the process exited on its own.
C28_AfterOwnExitReached ==
    /\ ~is_shutdown
    /\ ret.op = "read_output" /\ ret.status = "ended"
    /\ \A k \in 1..Len(terminal_history) : terminal_history[k][2] # "Dev server stopped"

\* C29: every stop_dev_server call on a running server eventually returns
\* with the supervisor stopped (unless the orchestrator itself ends first),
\* also when the child does not exit on the termination signal.
C29_StopEventuallyReturns ==
    (stop_waiting # NoProcess) ~> (is_shutdown \/ (ret.op = "stop" /\ ret.status = "stopped"))

\* C30: once the orchestrator has shut down, no dev-server process it spawned
\* is alive.
C30_NoChildSurvivesShutdown == is_shutdown => LiveProcs(procs) = {}

\* C31: the recorded port is set only while a dev-server process is live, so
\* get_preview_html offers a preview only of a running server.
C31_PortOnlyWhileLive ==
    GetPreviewHtml(preview_port) # "No preview available"
        => ServerRunning(procs, dev_server_process)

\* C32: the working directory of every live dev-server process is the active
\* project, and a start_dev_server that answers "already running" answers
\* for a server of the active project.
C32_LiveServerIsOfActiveProject ==
    /\ \A i \in LiveProcs(procs) :
          current_project # NoProject /\ procs[i].cwd = Resolve(current_project)
    /\ (ret.op = "start" /\ ret.status = "already_running")
          => procs[dev_server_process].cwd = Resolve(current_project)

\* C33: the active-project pointer is empty or refers to a directory that
\* exists.
C33_PointerRefersToExistingDir ==
    current_project # NoProject => Exists(fs, current_project)

\* C34: create_project changes the active-project pointer exactly when it
\* succeeds: a successful create makes the new project the active one, every
\* other create leaves the pointer as it was.
C34_CreateSetsPointerIffSuccess ==
    [][ret'.op = "create" =>
          IF ret'.status = "ok"
          THEN current_project' = JoinName(Strip(ret'.arg))
          ELSE current_project' = current_project]_vars

\* C35: when generate_code returns, every screenshot file in the active
\* project's screenshots directory is named by a record of its log, and a
\* call that changed the disk appended a record.
C35_SavedFilesHaveRecord ==
    [][(ret'.op = "generate" /\ current_project # NoProject)
          => /\ fs' # fs => ret'.status = "ok" /\ appended' # appended
             /\ \A i \in 1..Len(ScreenshotFiles(fs', current_project)) :
                   \E k \in 1..Len(ActiveLog') :
                       ActiveLog'[k].screenshot = ScreenshotFiles(fs', current_project)[i][1]]_vars

====
